---- MODULE Spec2Model ----
(***************************************************************************)
(* A model of two parts of openraft:                                       *)
(*                                                                         *)
(*   - the per-follower replication progress entry and its Updater         *)
(*     (openraft/src/progress/entry/update.rs), specification Spec;        *)
(*   - the RocksDB backed store (rocksstore/src/lib.rs): the log column    *)
(*     family (specification SpecLog) and the state machine with its       *)
(*     snapshots (specification SpecSM).                                   *)
(*                                                                         *)
(* Option<T> is modelled as a sequence of length at most one: None is <<>> *)
(* and Some(x) is <<x>>.                                                   *)
(***************************************************************************)
EXTENDS Integers, Sequences, FiniteSets, TLC

\* ------------------------------------------------------------------ bounds

\* Largest log index the leader of the progress model talks about.
MaxIndex == 3
\* Largest term of a log id.
MaxTerm == 2

\* ----------------------------------------------------------- Option, LogId

None == <<>>
Some(x) == <<x>>
IsSome(o) == o # <<>>
Unwrap(o) == o[1]

LogId(t, i) == [term |-> t, index |-> i]

\* #[derive(PartialOrd, Ord)] on LogId: lexicographic on (term, index).
LogIdLe(a, b) == a.term < b.term \/ (a.term = b.term /\ a.index <= b.index)

\* Ord on Option<LogId>: None is below every Some.
OptLe(a, b) ==
    IF a = None THEN TRUE
    ELSE IF b = None THEN FALSE
    ELSE LogIdLe(Unwrap(a), Unwrap(b))
OptLt(a, b) == OptLe(a, b) /\ a # b

\* LogIdOptionExt::next_index: 0 for None, index + 1 otherwise.
next_index(o) == IF o = None THEN 0 ELSE Unwrap(o).index + 1

ProgressLogIds == {LogId(t, i) : t \in 1..MaxTerm, i \in 0..MaxIndex}
ProgressOptLogIds == {None} \cup {Some(l) : l \in ProgressLogIds}

\* ------------------------------------------------------------ ProgressEntry

VARIABLES
    matching,                 \* entry.matching: Option<LogId>
    searching_end,            \* entry.searching_end: u64
    allow_log_reversion,      \* entry.allow_log_reversion: the one-shot flag
    inflight,                 \* entry.inflight: "None" or "Logs"
    engine_allow_log_reversion, \* engine_config.allow_log_reversion
    debug_assertions,         \* whether the build keeps debug_assert! (and overflow checks)
    halted,                   \* the engine task has panicked
    call                      \* the last Updater call: its arguments and the entry before it

pvars == <<matching, searching_end, allow_log_reversion, inflight,
           engine_allow_log_reversion, debug_assertions, halted, call>>

Entry3(m, se, alr, inf) ==
    [matching |-> m, searching_end |-> se, allow_log_reversion |-> alr, inflight |-> inf]

CurEntry == Entry3(matching, searching_end, allow_log_reversion, inflight)

NoCall == [op |-> "none", m |-> None, conflict |-> 0, has_payload |-> FALSE,
           pre |-> Entry3(None, 0, FALSE, "None")]

\* Inflight::conflict: the window of the rejected request is dropped.
InflightConflict(inf, conflict) == "None"

\* Inflight::ack: the window of the acknowledged request is cleared.
InflightAck(inf, m) == "None"

\* A progress entry as the leader creates it: searching_end is the leader's
\* last log index + 1 and matching lies below it.
ProgressInit ==
    /\ matching \in ProgressOptLogIds
    /\ searching_end \in 0..(MaxIndex + 1)
    /\ searching_end >= next_index(matching)
    /\ allow_log_reversion \in BOOLEAN
    /\ engine_allow_log_reversion \in BOOLEAN
    /\ debug_assertions \in BOOLEAN
    /\ inflight = "None"
    /\ halted = FALSE
    /\ call = NoCall

\* The replication handler opens a window before it sends a request.
OpenInflight ==
    /\ ~halted
    /\ inflight = "None"
    /\ inflight' = "Logs"
    /\ UNCHANGED <<matching, searching_end, allow_log_reversion,
                   engine_allow_log_reversion, debug_assertions, halted, call>>

\* let allow_reset = self.entry.allow_log_reversion || self.engine_config.allow_log_reversion;
AllowReset(entry_flag, engine_flag) == entry_flag \/ engine_flag

\* debug_assert!(cond): panics when cond is false in a build with debug assertions,
\* and is compiled out otherwise.
DebugAssertFails(cond) == debug_assertions /\ ~cond

\* (no early return)
IsStale_Never(conflict, se) == FALSE
\* if conflict >= self.entry.searching_end { return; }
IsStale(conflict, se) == conflict >= se

\* (searching_end is left as it was)
NarrowedSearchingEnd_Kept(conflict, se) == se
\* (the window is halved instead of cut at the conflict)
NarrowedSearchingEnd_Midpoint(conflict, se) == (conflict + se) \div 2
\* self.entry.searching_end = conflict;
NarrowedSearchingEnd(conflict, se) == conflict

\* conflict < self.entry.matching().next_index(): an already matching log id is lost.
IsReverted(conflict, m) == conflict < next_index(m)

\* self.entry.matching = None; self.entry.allow_log_reversion = false;
ResetMatching(m) == None
\* (the flag is left as it was)
ResetFlag_Kept(flag) == flag
ResetFlag(flag) == FALSE

\* (inflight.conflict is called whatever has_payload is)
InflightAfterConflict_Always(inf, conflict, has_payload) ==
    InflightConflict(inf, conflict)
\* if has_payload { self.entry.inflight.conflict(conflict); }
InflightAfterConflict(inf, conflict, has_payload) ==
    IF has_payload THEN InflightConflict(inf, conflict) ELSE inf

\* Updater::update_conflicting(conflict, has_payload)
UpdateConflicting(conflict, has_payload) ==
    /\ ~halted
    /\ call' = [op |-> "update_conflicting", m |-> None, conflict |-> conflict,
                has_payload |-> has_payload, pre |-> CurEntry]
    /\ inflight' = InflightAfterConflict(inflight, conflict, has_payload)
    /\ IF IsStale(conflict, searching_end)
       THEN UNCHANGED <<matching, searching_end, allow_log_reversion, halted>>
       ELSE /\ searching_end' = NarrowedSearchingEnd(conflict, searching_end)
            /\ IF AllowReset(allow_log_reversion, engine_allow_log_reversion)
               THEN /\ IF IsReverted(conflict, matching)
                       THEN /\ matching' = ResetMatching(matching)
                            /\ allow_log_reversion' = ResetFlag(allow_log_reversion)
                       ELSE UNCHANGED <<matching, allow_log_reversion>>
                    /\ UNCHANGED halted
               ELSE /\ halted' = DebugAssertFails(~IsReverted(conflict, matching))
                    /\ UNCHANGED <<matching, allow_log_reversion>>
    /\ UNCHANGED <<engine_allow_log_reversion, debug_assertions>>

\* (searching_end is left as it was)
RaisedSearchingEnd_Kept(se, m) == se
\* self.entry.searching_end = std::cmp::max(self.entry.searching_end, matching_next);
RaisedSearchingEnd(se, m) == IF se >= next_index(m) THEN se ELSE next_index(m)

\* Updater::update_matching(matching)
UpdateMatching(m) ==
    /\ ~halted
    /\ call' = [op |-> "update_matching", m |-> m, conflict |-> 0,
                has_payload |-> FALSE, pre |-> CurEntry]
    /\ inflight' = InflightAck(inflight, m)
    /\ IF DebugAssertFails(OptLe(matching, m))
       THEN /\ halted' = TRUE
            /\ UNCHANGED <<matching, searching_end>>
       ELSE /\ matching' = m
            /\ searching_end' = RaisedSearchingEnd(searching_end, m)
            /\ UNCHANGED halted
    /\ UNCHANGED <<allow_log_reversion, engine_allow_log_reversion, debug_assertions>>

\* ------------------------------------------------------------- RocksStore

\* A byte of a key has 256 values; the model keeps the two-byte, base-ByteBase
\* image of the 8-byte big-endian key, so that u64 is 0..U64Max.
ByteBase == 2
\* Largest number of entries in one append_to_log or apply_to_state_machine call.
MaxBatch == 2

U64Max == ByteBase * ByteBase - 1
U64 == 0..U64Max

\* (least significant byte first)
id_to_bin_LittleEndian(id) == <<id % ByteBase, id \div ByteBase>>
\* fn id_to_bin(id: u64) -> Vec<u8>: big endian, most significant byte first.
id_to_bin(id) == <<id \div ByteBase, id % ByteBase>>

\* fn bin_to_id(buf: &[u8]) -> u64
bin_to_id(buf) == buf[1] * ByteBase + buf[2]

\* The byte-wise (lexicographic) order RocksDB keeps its keys in.
KeyLt(a, b) == a[1] < b[1] \/ (a[1] = b[1] /\ a[2] < b[2])
KeyLe(a, b) == a = b \/ KeyLt(a, b)

\* DB::put_cf on a column family, a function from keys to values.
PutCf(cf, k, v) == [x \in (DOMAIN cf) \cup {k} |-> IF x = k THEN v ELSE cf[x]]

\* DB::delete_range_cf: removes the keys in [from, to).
DeleteRangeCf(cf, from, to) ==
    [x \in {k \in DOMAIN cf : ~(KeyLe(from, k) /\ KeyLt(k, to))} |-> cf[x]]

RECURSIVE SortKeys(_)
SortKeys(S) ==
    IF S = {} THEN <<>>
    ELSE LET m == CHOOSE x \in S : \A y \in S : KeyLe(x, y)
         IN <<m>> \o SortKeys(S \ {m})

\* (IteratorMode::Start: every key, whatever start is)
IterFrom_Start(cf, start) == SortKeys(DOMAIN cf)
\* DB::iterator_cf(cf, IteratorMode::From(start, Direction::Forward)): the keys
\* at or after start, in key order.
IterFrom(cf, start) == SortKeys({k \in DOMAIN cf : KeyLe(start, k)})

\* DB::iterator_cf(cf, IteratorMode::End).next(): the last key, if any.
IterEnd(cf) ==
    IF DOMAIN cf = {} THEN None
    ELSE Some(CHOOSE x \in DOMAIN cf : \A y \in DOMAIN cf : KeyLe(y, x))

\* Entry payloads.
Blank == <<"Blank">>
Normal(k, v) == <<"Normal", k, v>>
Membership(m) == <<"Membership", m>>

MkEntry(l, p) == [log_id |-> l, payload |-> p]

\* serde_json::to_vec(entry) and serde_json::from_slice::<Entry<_>>: the record
\* is flattened into its fields in declaration order, and read back from them.
EntryToJson(e) == <<e.log_id.term, e.log_id.index>> \o e.payload
EntryFromJson(b) == [log_id |-> LogId(b[1], b[2]), payload |-> SubSeq(b, 3, Len(b))]

\* serde_json of a LogId (the value of meta key "last_purged_log_id").
LogIdToJson(l) == <<l.term, l.index>>
LogIdFromJson(b) == LogId(b[1], b[2])

VARIABLES
    cf_logs,       \* column family "logs": key bytes -> serialized Entry
    meta_purged,   \* column family "meta", key "last_purged_log_id": Option<bytes>
    log_call,      \* the last writing call of the log store: arguments and outcome
    log_read       \* the last reading call since then: arguments, outcome, returned value

lvars == <<cf_logs, meta_purged, log_call, log_read>>

EmptyCf == [x \in {} |-> <<>>]

\* get_meta::<meta::LastPurged>()
GetLastPurged(mp) == IF mp = None THEN None ELSE Some(LogIdFromJson(Unwrap(mp)))

\* RocksStore::get_log_state
GetLogState(cf, mp) ==
    LET last == IterEnd(cf)
        tail == IF last = None THEN None
                ELSE Some(EntryFromJson(cf[Unwrap(last)]).log_id)
        last_purged_log_id == GetLastPurged(mp)
    IN [last_purged_log_id |-> last_purged_log_id,
        last_log_id |-> IF tail = None THEN last_purged_log_id ELSE tail]

\* Range bounds of a try_get_log_entries call.
Unbounded == <<"Unbounded">>
Included(x) == <<"Included", x>>
Excluded(x) == <<"Excluded", x>>
Bounds == {Unbounded} \cup {Included(x) : x \in U64} \cup {Excluded(x) : x \in U64}
\* a..b, a..=b, a.., ..b, ..=b and .. of Rust, and (Bound::Excluded(a), Bound::Unbounded).
Ranges == {r \in [start : Bounds, end : Bounds] :
              r.start[1] = "Excluded" => r.end = Unbounded}

\* RangeBounds::contains
RangeContains(r, id) ==
    /\ CASE r.start[1] = "Included" -> r.start[2] <= id
         [] r.start[1] = "Excluded" -> r.start[2] < id
         [] OTHER -> TRUE
    /\ CASE r.end[1] = "Included" -> id <= r.end[2]
         [] r.end[1] = "Excluded" -> id < r.end[2]
         [] OTHER -> TRUE

\* u64 `x + 1`: overflows at U64Max (a panic with overflow checks, else wraps to 0).
Add1Overflows(x) == x = U64Max
WrappingAdd1(x) == (x + 1) % (U64Max + 1)

\* The loop of try_get_log_entries over the iterator: entries are pushed until the
\* first key whose id is outside the range.
RECURSIVE TakeInRange(_, _, _)
TakeInRange(cf, keys, r) ==
    IF keys = <<>> THEN <<>>
    ELSE IF ~RangeContains(r, bin_to_id(Head(keys))) THEN <<>>
    ELSE <<EntryFromJson(cf[Head(keys)])>> \o TakeInRange(cf, Tail(keys), r)

\* The value try_get_log_entries returns when no read fails: start is the
\* (wrapped) first index of the range.
TryGetEntries(cf, r) ==
    LET start == CASE r.start[1] = "Included" -> id_to_bin(r.start[2])
                   [] r.start[1] = "Excluded" -> id_to_bin(WrappingAdd1(r.start[2]))
                   [] OTHER -> id_to_bin(0)
    IN TakeInRange(cf, IterFrom(cf, start), r)

NoLogCall == [op |-> "none", arg |-> <<>>, outcome |-> "ok"]
NoLogRead == [op |-> "none", arg |-> <<>>, outcome |-> "ok", ret |-> <<>>]

LogInit ==
    /\ cf_logs = EmptyCf
    /\ meta_purged = None
    /\ log_call = NoLogCall
    /\ log_read = NoLogRead

\* RocksStore::try_get_log_entries(range). io_ok: no read of the iterator fails.
\* With overflow checks, `*x + 1` of an excluded start bound panics at U64Max.
TryGetLogEntries(r, io_ok) ==
    /\ log_read' =
         IF r.start[1] = "Excluded" /\ Add1Overflows(r.start[2]) /\ debug_assertions
         THEN [op |-> "try_get", arg |-> r, outcome |-> "panic", ret |-> <<>>]
         ELSE IF ~io_ok
         THEN [op |-> "try_get", arg |-> r, outcome |-> "io_error", ret |-> <<>>]
         ELSE [op |-> "try_get", arg |-> r, outcome |-> "ok",
               ret |-> TryGetEntries(cf_logs, r)]
    /\ UNCHANGED <<cf_logs, meta_purged, log_call>>

\* The loop of append_to_log: one put_cf per entry, in order.
RECURSIVE PutEntries(_, _)
PutEntries(cf, entries) ==
    IF entries = <<>> THEN cf
    ELSE PutEntries(PutCf(cf, id_to_bin(Head(entries).log_id.index),
                          EntryToJson(Head(entries))),
                    Tail(entries))

\* RocksStore::append_to_log(entries). written: the number of entries put before a
\* put_cf fails (Len(entries) when none fails).
AppendToLog(entries, written) ==
    /\ cf_logs' = PutEntries(cf_logs, SubSeq(entries, 1, written))
    /\ log_call' = [op |-> "append", arg |-> entries,
                    outcome |-> IF written = Len(entries) THEN "ok" ELSE "io_error"]
    /\ log_read' = NoLogRead
    /\ UNCHANGED meta_purged

\* RocksStore::delete_conflict_logs_since(log_id). io_ok: delete_range_cf succeeds.
DeleteConflictLogsSince(log_id, io_ok) ==
    /\ cf_logs' = IF io_ok
                  THEN DeleteRangeCf(cf_logs, id_to_bin(log_id.index), id_to_bin(U64Max))
                  ELSE cf_logs
    /\ log_call' = [op |-> "delete_conflict", arg |-> log_id,
                    outcome |-> IF io_ok THEN "ok" ELSE "io_error"]
    /\ log_read' = NoLogRead
    /\ UNCHANGED meta_purged

PurgeOutcomes == {"ok", "put_error", "crash", "delete_error"}

\* RocksStore::purge_logs_upto(log_id). outcome: "put_error": put_meta fails;
\* "crash": the process dies between put_meta and delete_range_cf and the store
\* is reopened; "delete_error": delete_range_cf fails; "ok" otherwise. With
\* overflow checks, log_id.index + 1 panics at U64Max, after put_meta.
PurgeLogsUpto(log_id, outcome) ==
    LET panics == Add1Overflows(log_id.index) /\ debug_assertions
        out == IF outcome \in {"ok", "delete_error"} /\ panics THEN "panic" ELSE outcome
    IN
    /\ meta_purged' = IF out = "put_error" THEN meta_purged
                      ELSE Some(LogIdToJson(log_id))
    /\ cf_logs' = IF out = "ok"
                  THEN DeleteRangeCf(cf_logs, id_to_bin(0),
                                     id_to_bin(WrappingAdd1(log_id.index)))
                  ELSE cf_logs
    /\ log_call' = [op |-> "purge", arg |-> log_id, outcome |-> out]
    /\ log_read' = NoLogRead

\* ---------------------------------------------------- RocksStateMachine

\* Largest index of an entry applied to the state machine.
MaxApplied == 2
\* Largest snapshot counter the model lets build_snapshot reach.
MaxSnapshots == 2

\* Application keys in the order of their bytes (the order of the sm_data column
\* family and of BTreeMap<String, String>), and application values.
SMKeyOrder == <<"a", "b">>
SMKeys == {SMKeyOrder[i] : i \in 1..Len(SMKeyOrder)}
SMValues == {"x"}
Memberships == {"m1"}

SMLogIds == {LogId(t, i) : t \in 1..MaxTerm, i \in 1..MaxApplied}
SMOptLogIds == {None} \cup {Some(l) : l \in SMLogIds}

\* EffectiveMembership::new(log_id, membership)
EffectiveMembership(l, m) == [log_id |-> l, membership |-> m]

\* serde_json of an EffectiveMembership (the value of sm_meta key "last_membership").
MembershipToJson(em) == <<em.log_id.term, em.log_id.index, em.membership>>
MembershipFromJson(b) == EffectiveMembership(LogId(b[1], b[2]), b[3])

\* The column families sm_data and sm_meta of one database.
EmptySM == [data |-> EmptyCf, last_applied_log |-> None, last_membership |-> None]

\* RocksStateMachine::get_last_applied_log
get_last_applied_log(db) ==
    IF db.last_applied_log = None THEN None
    ELSE Some(LogIdFromJson(Unwrap(db.last_applied_log)))

\* RocksStateMachine::get_last_membership
get_last_membership(db) ==
    IF db.last_membership = None THEN None
    ELSE Some(MembershipFromJson(Unwrap(db.last_membership)))

\* One put_cf of the state machine: RocksStateMachine::insert,
\* set_last_applied_log, set_last_membership.
WData(k, v) == <<"data", k, v>>
WLastApplied(l) == <<"last_applied_log", LogIdToJson(l)>>
WLastMembership(em) == <<"last_membership", MembershipToJson(em)>>

PutSM(db, w) ==
    CASE w[1] = "data" -> [db EXCEPT !.data = PutCf(db.data, w[2], w[3])]
      [] w[1] = "last_applied_log" -> [db EXCEPT !.last_applied_log = Some(w[2])]
      [] OTHER -> [db EXCEPT !.last_membership = Some(w[2])]

\* The puts of a sequence, in order.
RECURSIVE PutAllSM(_, _)
PutAllSM(db, ws) == IF ws = <<>> THEN db ELSE PutAllSM(PutSM(db, Head(ws)), Tail(ws))

\* impl From<&RocksStateMachine> for SerializableRocksStateMachine
ToSerializable(db) ==
    [last_applied_log |-> get_last_applied_log(db),
     last_membership |-> get_last_membership(db),
     data |-> db.data]

\* The entries of a BTreeMap<String, String> in key order.
RECURSIVE MapPairs(_, _)
MapPairs(data, keys) ==
    IF keys = <<>> THEN <<>>
    ELSE IF Head(keys) \in DOMAIN data
         THEN <<<<Head(keys), data[Head(keys)]>>>> \o MapPairs(data, Tail(keys))
         ELSE MapPairs(data, Tail(keys))

\* BTreeMap::insert of each pair of a sequence, in order.
RECURSIVE PairsMap(_)
PairsMap(pairs) ==
    IF pairs = <<>> THEN EmptyCf
    ELSE LET rest == PairsMap(SubSeq(pairs, 1, Len(pairs) - 1))
             last == pairs[Len(pairs)]
         IN PutCf(rest, last[1], last[2])

\* serde_json of an Option field: null, or the value.
OptLogIdToJson(o) == IF o = None THEN None ELSE Some(LogIdToJson(Unwrap(o)))
OptLogIdFromJson(b) == IF b = None THEN None ELSE Some(LogIdFromJson(Unwrap(b)))
OptMembershipToJson(o) == IF o = None THEN None ELSE Some(MembershipToJson(Unwrap(o)))
OptMembershipFromJson(b) ==
    IF b = None THEN None ELSE Some(MembershipFromJson(Unwrap(b)))

\* serde_json::to_vec(&SerializableRocksStateMachine): the fields in declaration
\* order, the map as its pairs in key order.
SerializeSM(ssm) ==
    <<"sm", OptLogIdToJson(ssm.last_applied_log),
      OptMembershipToJson(ssm.last_membership),
      MapPairs(ssm.data, SMKeyOrder)>>

\* Bytes that are no serialized state machine.
Garbage == <<"garbage">>

\* serde_json::from_slice::<SerializableRocksStateMachine>: None for an error.
DeserializeSM(bytes) ==
    IF Len(bytes) = 4 /\ bytes[1] = "sm"
    THEN Some([last_applied_log |-> OptLogIdFromJson(bytes[2]),
               last_membership |-> OptMembershipFromJson(bytes[3]),
               data |-> PairsMap(bytes[4])])
    ELSE None

\* The puts of RocksStateMachine::from_serializable, in order: every pair of
\* sm.data, then last_applied_log if it is Some, then last_membership if it is Some.
RECURSIVE DataWrites(_)
DataWrites(pairs) ==
    IF pairs = <<>> THEN <<>>
    ELSE <<WData(Head(pairs)[1], Head(pairs)[2])>> \o DataWrites(Tail(pairs))

\* (last_membership is not written)
FromSerializableWrites_NoMembership(ssm) ==
    DataWrites(MapPairs(ssm.data, SMKeyOrder))
    \o (IF ssm.last_applied_log = None THEN <<>>
        ELSE <<WLastApplied(Unwrap(ssm.last_applied_log))>>)

FromSerializableWrites(ssm) ==
    DataWrites(MapPairs(ssm.data, SMKeyOrder))
    \o (IF ssm.last_applied_log = None THEN <<>>
        ELSE <<WLastApplied(Unwrap(ssm.last_applied_log))>>)
    \o (IF ssm.last_membership = None THEN <<>>
        ELSE <<WLastMembership(Unwrap(ssm.last_membership))>>)

\* The puts of the loop of apply_to_state_machine for one entry and for a batch:
\* set_last_applied_log first, then the payload.
\* (the payload is written before last_applied_log)
EntryWrites_PayloadFirst(e) ==
    (CASE e.payload[1] = "Normal" -> <<WData(e.payload[2], e.payload[3])>>
       [] e.payload[1] = "Membership" ->
             <<WLastMembership(EffectiveMembership(e.log_id, e.payload[2]))>>
       [] OTHER -> <<>>)
    \o <<WLastApplied(e.log_id)>>

EntryWrites(e) ==
    <<WLastApplied(e.log_id)>>
    \o (CASE e.payload[1] = "Normal" -> <<WData(e.payload[2], e.payload[3])>>
          [] e.payload[1] = "Membership" ->
                <<WLastMembership(EffectiveMembership(e.log_id, e.payload[2]))>>
          [] OTHER -> <<>>)

RECURSIVE BatchWrites(_)
BatchWrites(entries) ==
    IF entries = <<>> THEN <<>>
    ELSE EntryWrites(Head(entries)) \o BatchWrites(Tail(entries))

\* The response apply_to_state_machine pushes for one entry, and for a batch.
EntryResponse(e) == IF e.payload[1] = "Normal" THEN Some(e.payload[3]) ELSE None

RECURSIVE BatchResponses(_)
BatchResponses(entries) ==
    IF entries = <<>> THEN <<>>
    ELSE <<EntryResponse(Head(entries))>> \o BatchResponses(Tail(entries))

\* SnapshotMeta and its snapshot_id: format!("{}-{}-{}", term, index, idx), or
\* format!("--{}", idx) when nothing is applied (an empty field is written -1).
SnapshotId(last, idx) ==
    IF last = None THEN <<-1, -1, idx>>
    ELSE <<Unwrap(last).term, Unwrap(last).index, idx>>

SnapshotMeta(last, idx) == [last_log_id |-> last, snapshot_id |-> SnapshotId(last, idx)]

\* RocksSnapshot { meta, data }
RocksSnapshot(meta, data) == [meta |-> meta, data |-> data]

VARIABLES
    sm,                  \* column families sm_data and sm_meta
    meta_snapshot_index, \* column family "meta", key "snapshot_index": Option<u64>
    meta_snapshot,       \* column family "meta", key "snapshot": Option<RocksSnapshot>
    sm_call,             \* the last step of a state-machine call: the call, its outcome so far
    builds,              \* build_snapshot calls: each one's position and locals
    installs             \* install_snapshot calls: each one's position and locals

svars == <<sm, meta_snapshot_index, meta_snapshot, sm_call, builds, installs>>

\* The calls of build_snapshot, and of install_snapshot, that can be in progress
\* at a time on one Arc<RocksStore>.
BuildCalls == {1, 2}
InstallCalls == {1, 2}

\* A build_snapshot call that has not run yet: its position and its locals
\* state_machine, data, last_applied_log and snapshot_idx; stored is what get_meta
\* returned. A call that returned ("done") has dropped its locals; ret is the
\* snapshot it returned.
IdleBuild ==
    [pc |-> "serialize", state_machine |-> <<>>, data |-> <<>>,
     last_applied_log |-> <<>>, stored |-> <<>>, snapshot_idx |-> 0, ret |-> <<>>]

\* No build_snapshot call has run; initial_index is what the meta store held
\* under "snapshot_index" when the calls were issued.
NoBuilds == [initial_index |-> <<>>, calls |-> [c \in BuildCalls |-> IdleBuild]]

\* An install_snapshot call that has not run yet: its position, its local
\* new_snapshot, and the column families it found (pre).
IdleInstall == [pc |-> "decode", new_snapshot |-> <<>>, pre |-> <<>>]

NoInstalls == [c \in InstallCalls |-> IdleInstall]

NoSMCall == [op |-> "none", arg |-> <<>>, outcome |-> "ok", ret |-> <<>>]

SMInit ==
    /\ sm = EmptySM
    /\ meta_snapshot_index = None
    /\ meta_snapshot = None
    /\ sm_call = NoSMCall
    /\ builds = NoBuilds
    /\ installs = NoInstalls

\* RocksStore::apply_to_state_machine(entries): one step, the write lock of the
\* state machine is held from the first put to the return. puts: the number of
\* put_cf calls that succeed before one fails (all of them when none fails);
\* flushed: flush_wal succeeds.
ApplyToStateMachine(entries, puts, flushed) ==
    LET ws == BatchWrites(entries)
        ok == puts = Len(ws) /\ flushed
    IN
    /\ sm' = PutAllSM(sm, SubSeq(ws, 1, puts))
    /\ sm_call' = [op |-> "apply", arg |-> entries,
                   outcome |-> IF ok THEN "ok" ELSE "io_error",
                   ret |-> IF ok THEN BatchResponses(entries) ELSE <<>>]
    /\ UNCHANGED <<meta_snapshot_index, meta_snapshot, builds, installs>>

\* (the stored counter is used again)
NextSnapshotIdx_NoIncrement(stored) == IF stored = None THEN 0 ELSE Unwrap(stored)
\* self.get_meta::<meta::SnapshotIndex>()?.unwrap_or_default() + 1
NextSnapshotIdx(stored) == (IF stored = None THEN 0 ELSE Unwrap(stored)) + 1

\* How a build_snapshot call ends. "index_put_error": put_meta of the counter
\* fails; "crash_after_index": the process dies between the two put_meta calls
\* and the store is reopened; "snapshot_put_error": put_meta of the snapshot fails.
BuildOutcomes == {"ok", "index_put_error", "crash_after_index", "snapshot_put_error"}

\* The record of a build_snapshot call that has not returned yet.
BuildPending == [op |-> "build", arg |-> <<>>, outcome |-> "pending", ret |-> <<>>]

\* The record of a build_snapshot call that ended: its locals go with it.
BuildEnded(l, outcome, ret) ==
    [op |-> "build", arg |-> <<>>, outcome |-> outcome, ret |-> ret, call |-> l]

\* --- build_snapshot step by step: a call holds the read lock of the state
\* machine only while it serializes; get_meta and put_meta of the counter and
\* put_meta of the snapshot are separate calls on the database, under no lock.

\* let state_machine = SerializableRocksStateMachine::from(&*..read().await);
\* data = serde_json::to_vec(&state_machine); last_applied_log = ..
BuildSerialize(c) ==
    /\ builds.calls[c].pc \in {"serialize", "done"}
    /\ LET state_machine == ToSerializable(sm)
       IN builds' = [builds EXCEPT
                        !.calls[c] = [IdleBuild EXCEPT
                            !.pc = "get_index",
                            !.state_machine = state_machine,
                            !.data = SerializeSM(state_machine),
                            !.last_applied_log = state_machine.last_applied_log]]
    /\ sm_call' = BuildPending
    /\ UNCHANGED <<sm, meta_snapshot_index, meta_snapshot, installs>>

\* let snapshot_idx = self.get_meta::<meta::SnapshotIndex>()?.unwrap_or_default() + 1;
BuildGetIndex(c) ==
    /\ builds.calls[c].pc = "get_index"
    /\ builds' = [builds EXCEPT
                     !.calls[c].pc = "put_index",
                     !.calls[c].stored = meta_snapshot_index,
                     !.calls[c].snapshot_idx = NextSnapshotIdx(meta_snapshot_index)]
    /\ sm_call' = BuildPending
    /\ UNCHANGED <<sm, meta_snapshot_index, meta_snapshot, installs>>

\* self.put_meta::<meta::SnapshotIndex>(&snapshot_idx)?;
BuildPutIndex(c, outcome) ==
    /\ builds.calls[c].pc = "put_index"
    /\ IF outcome = "index_put_error"
       THEN /\ builds' = [builds EXCEPT !.calls[c] = [IdleBuild EXCEPT !.pc = "done"]]
            /\ sm_call' = BuildEnded(builds.calls[c], outcome, <<>>)
            /\ UNCHANGED meta_snapshot_index
       ELSE /\ meta_snapshot_index' = Some(builds.calls[c].snapshot_idx)
            /\ builds' = [builds EXCEPT !.calls[c].pc = "put_snapshot"]
            /\ sm_call' = BuildPending
    /\ UNCHANGED <<sm, meta_snapshot, installs>>

\* snapshot_id, meta, snapshot; self.put_meta::<meta::Snapshot>(&snapshot)?; Ok(..)
\* A crash ends every call in progress.
BuildPutSnapshot(c, outcome) ==
    /\ builds.calls[c].pc = "put_snapshot"
    /\ outcome # "index_put_error"
    /\ LET l == builds.calls[c]
           meta == SnapshotMeta(l.last_applied_log, l.snapshot_idx)
           snapshot == RocksSnapshot(meta, l.data)
       IN IF outcome = "ok"
          THEN /\ meta_snapshot' = Some(snapshot)
               /\ builds' = [builds EXCEPT
                                !.calls[c] = [IdleBuild EXCEPT !.pc = "done",
                                                               !.ret = snapshot]]
               /\ sm_call' = BuildEnded(l, outcome, snapshot)
               /\ UNCHANGED installs
          ELSE IF outcome = "snapshot_put_error"
          THEN /\ builds' = [builds EXCEPT !.calls[c] = [IdleBuild EXCEPT !.pc = "done"]]
               /\ sm_call' = BuildEnded(l, outcome, <<>>)
               /\ UNCHANGED <<meta_snapshot, installs>>
          ELSE /\ builds' = [builds EXCEPT !.calls = [d \in BuildCalls |-> IdleBuild]]
               /\ installs' = NoInstalls
               /\ sm_call' = BuildEnded(l, outcome, <<>>)
               /\ UNCHANGED meta_snapshot
    /\ UNCHANGED <<sm, meta_snapshot_index>>

\* RocksStore::build_snapshot: one step of call c.
BuildSnapshot(c, outcome) ==
    \/ BuildSerialize(c)
    \/ BuildGetIndex(c)
    \/ BuildPutIndex(c, outcome)
    \/ BuildPutSnapshot(c, outcome)

\* StorageIOError::new(ErrorSubject::Snapshot(new_snapshot.meta.clone()),
\* ErrorVerb::Read, ..), converted to a StorageError by `?`.
SnapshotReadError(meta) ==
    [kind |-> "IO", subject |-> <<"Snapshot", meta>>, verb |-> "Read"]

\* (bytes that do not decode empty the column families)
InstallWriteResult_Clears(db, bytes, puts) ==
    LET updated == DeserializeSM(bytes)
    IN IF updated = None
       THEN [db |-> EmptySM, outcome |-> "read_error"]
       ELSE LET ws == FromSerializableWrites(Unwrap(updated))
                n == IF puts < Len(ws) THEN puts ELSE Len(ws)
            IN [db |-> PutAllSM(db, SubSeq(ws, 1, n)),
                outcome |-> IF n = Len(ws) THEN "written" ELSE "io_error"]
\* The first half of install_snapshot on the column families db: from_slice, then
\* from_serializable under the write lock. puts: the number of put_cf calls of
\* from_serializable that succeed before one fails.
InstallWriteResult(db, bytes, puts) ==
    LET updated == DeserializeSM(bytes)
    IN IF updated = None
       THEN [db |-> db, outcome |-> "read_error"]
       ELSE LET ws == FromSerializableWrites(Unwrap(updated))
                n == IF puts < Len(ws) THEN puts ELSE Len(ws)
            IN [db |-> PutAllSM(db, SubSeq(ws, 1, n)),
                outcome |-> IF n = Len(ws) THEN "written" ELSE "io_error"]

\* The effect of a whole install_snapshot(meta, snapshot) on the column families
\* db and the snapshot record rec of a store no other call runs on. saved:
\* put_meta of the snapshot succeeds.
InstallResult(db, rec, meta, bytes, puts, saved) ==
    LET w == InstallWriteResult(db, bytes, puts)
    IN IF w.outcome # "written"
       THEN [db |-> w.db, rec |-> rec, outcome |-> w.outcome]
       ELSE [db |-> w.db,
             rec |-> IF saved THEN Some(RocksSnapshot(meta, bytes)) ELSE rec,
             outcome |-> IF saved THEN "ok" ELSE "io_error"]

\* The record of an install_snapshot step; pre: the column families the call found.
InstallRecord(new_snapshot, pre, outcome) ==
    [op |-> "install", arg |-> new_snapshot, outcome |-> outcome,
     ret |-> IF outcome = "ok" THEN new_snapshot.meta.last_log_id
             ELSE IF outcome = "read_error"
                  THEN SnapshotReadError(new_snapshot.meta)
                  ELSE <<>>,
     pre |-> pre]

\* --- install_snapshot step by step: the state machine is written under its
\* write lock; the lock is dropped before put_meta stores the snapshot record.

\* new_snapshot; from_slice; self.state_machine.write().await;
\* *state_machine = RocksStateMachine::from_serializable(..)?
InstallWrite(c, meta, bytes, puts) ==
    /\ installs[c].pc \in {"decode", "done"}
    /\ LET new_snapshot == RocksSnapshot(meta, bytes)
           w == InstallWriteResult(sm, bytes, puts)
       IN /\ sm' = w.db
          /\ IF w.outcome = "written"
             THEN /\ installs' = [installs EXCEPT
                                     ![c] = [pc |-> "put_snapshot",
                                             new_snapshot |-> new_snapshot,
                                             pre |-> sm]]
                  /\ sm_call' = InstallRecord(new_snapshot, sm, "pending")
             ELSE /\ installs' = [installs EXCEPT ![c] = [IdleInstall EXCEPT !.pc = "done"]]
                  /\ sm_call' = InstallRecord(new_snapshot, sm, w.outcome)
    /\ UNCHANGED <<meta_snapshot_index, meta_snapshot, builds>>

\* self.put_meta::<meta::Snapshot>(&new_snapshot)?; Ok(StateMachineChanges {..})
InstallPutSnapshot(c, saved) ==
    /\ installs[c].pc = "put_snapshot"
    /\ meta_snapshot' = IF saved THEN Some(installs[c].new_snapshot) ELSE meta_snapshot
    /\ installs' = [installs EXCEPT ![c] = [IdleInstall EXCEPT !.pc = "done"]]
    /\ sm_call' = InstallRecord(installs[c].new_snapshot, installs[c].pre,
                                IF saved THEN "ok" ELSE "io_error")
    /\ UNCHANGED <<sm, meta_snapshot_index, builds>>

\* RocksStore::install_snapshot(meta, snapshot): one step of call c.
InstallSnapshot(c, meta, bytes, puts, saved) ==
    \/ InstallWrite(c, meta, bytes, puts)
    \/ InstallPutSnapshot(c, saved)

\* The snapshot build_snapshot has just returned is installed on a freshly
\* created store: install_snapshot(meta, snapshot) on empty column families, by
\* the only call on that store. The call record keeps the state machine the
\* snapshot was built from and the column families of the new store.
InstallOnFreshStore(puts, saved) ==
    /\ sm_call.op = "build"
    /\ sm_call.outcome = "ok"
    /\ LET r == InstallResult(EmptySM, None, sm_call.ret.meta, sm_call.ret.data,
                              puts, saved)
       IN sm_call' = [op |-> "install_fresh", arg |-> sm_call.call.state_machine,
                      outcome |-> r.outcome, ret |-> r.db]
    /\ UNCHANGED <<sm, meta_snapshot_index, meta_snapshot, builds, installs>>

\* ------------------------------------------------------------ specifications

vars == <<pvars, lvars, svars>>

\* No progress entry: the store specifications leave the Updater out.
ProgressIdle ==
    /\ matching = None
    /\ searching_end = 0
    /\ allow_log_reversion = FALSE
    /\ engine_allow_log_reversion = FALSE
    /\ debug_assertions \in BOOLEAN
    /\ inflight = "None"
    /\ halted = FALSE
    /\ call = NoCall

\* --- the progress entry

Init == ProgressInit /\ LogInit /\ SMInit

DoOpenInflight == OpenInflight /\ UNCHANGED <<lvars, svars>>

DoUpdateConflicting ==
    /\ \E conflict \in 0..(MaxIndex + 1), has_payload \in BOOLEAN :
           UpdateConflicting(conflict, has_payload)
    /\ UNCHANGED <<lvars, svars>>

\* The replication handler reports a matching log id that is not below the one
\* it reported before (the precondition update_matching asserts).
DoUpdateMatching ==
    /\ \E m \in ProgressOptLogIds : OptLe(matching, m) /\ UpdateMatching(m)
    /\ UNCHANGED <<lvars, svars>>

Next == DoOpenInflight \/ DoUpdateConflicting \/ DoUpdateMatching

Spec == Init /\ [][Next]_vars

\* The progress entry of a follower whose one-shot flag is set, under an engine
\* config that does not allow log reversion.
InitOneShot == Init /\ allow_log_reversion /\ ~engine_allow_log_reversion

SpecOneShot == InitOneShot /\ [][Next]_vars

\* --- the log store

\* The log store never looks into a payload: one payload stands for all.
LogPayloads == {Normal("a", "x")}

TermOf(o) == IF o = None THEN 1 ELSE Unwrap(o).term

\* The batches the engine appends: indices last_index + 1 .. last_index + n, terms
\* that do not decrease along the log.
AppendBatches(n) ==
    LET last == GetLogState(cf_logs, meta_purged).last_log_id
        first == next_index(last)
        choices == [1..n -> (TermOf(last)..MaxTerm) \X LogPayloads]
    IN IF first + n - 1 > U64Max THEN {}
       ELSE {[i \in 1..n |-> MkEntry(LogId(c[i][1], first + i - 1), c[i][2])] :
                c \in {d \in choices : \A i \in 1..(n - 1) : d[i][1] <= d[i + 1][1]}}

DoAppendToLog ==
    /\ \E n \in 1..MaxBatch : \E entries \in AppendBatches(n) : \E written \in 0..n :
           AppendToLog(entries, written)
    /\ UNCHANGED <<pvars, svars>>

\* One read follows a write: a second read of the unchanged store returns what
\* the first one did.
DoTryGetLogEntries ==
    /\ log_read = NoLogRead
    /\ \E r \in Ranges, io_ok \in BOOLEAN : TryGetLogEntries(r, io_ok)
    /\ UNCHANGED <<pvars, svars>>

StoredLogIds == {EntryFromJson(cf_logs[k]).log_id : k \in DOMAIN cf_logs}

\* The engine truncates at a stored entry that conflicts with the leader's.
DoDeleteConflictLogsSince ==
    /\ \E log_id \in StoredLogIds, io_ok \in BOOLEAN :
           DeleteConflictLogsSince(log_id, io_ok)
    /\ UNCHANGED <<pvars, svars>>

\* The engine purges up to an applied log id: a stored entry's, or, after a
\* snapshot was installed, one past the end of the log; never below last_purged.
PurgeTargets ==
    LET last == GetLogState(cf_logs, meta_purged).last_log_id
    IN {l \in StoredLogIds \cup
              {LogId(t, i) : t \in TermOf(last)..MaxTerm, i \in next_index(last)..U64Max} :
          OptLe(GetLastPurged(meta_purged), Some(l))}

DoPurgeLogsUpto ==
    /\ \E log_id \in PurgeTargets, outcome \in PurgeOutcomes :
           PurgeLogsUpto(log_id, outcome)
    /\ UNCHANGED <<pvars, svars>>

InitLog == ProgressIdle /\ LogInit /\ SMInit

NextLog ==
    DoAppendToLog \/ DoTryGetLogEntries \/ DoDeleteConflictLogsSince \/ DoPurgeLogsUpto

SpecLog == InitLog /\ [][NextLog]_vars

\* --- the state machine and its snapshots

SMPayloads ==
    {Blank} \cup {Normal(k, v) : k \in SMKeys, v \in SMValues}
            \cup {Membership(m) : m \in Memberships}

\* The batches the engine applies: committed entries in index order, starting
\* right after last_applied_log (at index 1 when nothing is applied).
ApplyBatches(n) ==
    LET last == get_last_applied_log(sm)
        first == IF last = None THEN 1 ELSE next_index(last)
        choices == [1..n -> (TermOf(last)..MaxTerm) \X SMPayloads]
    IN IF first + n - 1 > MaxApplied THEN {}
       ELSE {[i \in 1..n |-> MkEntry(LogId(c[i][1], first + i - 1), c[i][2])] :
                c \in {d \in choices : \A i \in 1..(n - 1) : d[i][1] <= d[i + 1][1]}}

\* The engine task makes its calls on the state machine, apply and install, one
\* at a time: it applies nothing while its install has not returned.
EngineInstall == 1

DoApplyToStateMachine ==
    /\ installs[EngineInstall].pc # "put_snapshot"
    /\ \E n \in 1..MaxBatch : \E entries \in ApplyBatches(n) :
         \E puts \in 0..Len(BatchWrites(entries)), flushed \in BOOLEAN :
           /\ (puts < Len(BatchWrites(entries)) => flushed)
           /\ ApplyToStateMachine(entries, puts, flushed)
    /\ UNCHANGED <<pvars, lvars>>

\* The snapshot task of the engine: one build_snapshot call at a time, any step
\* of it, between any two steps of the other calls. A call starts while the
\* counter is below MaxSnapshots.
SnapshotTask == 1

DoBuildSnapshot ==
    /\ \E outcome \in BuildOutcomes :
          /\ IF builds.calls[SnapshotTask].pc \in {"serialize", "done"}
             THEN NextSnapshotIdx(meta_snapshot_index) <= MaxSnapshots
             ELSE TRUE
          /\ BuildSnapshot(SnapshotTask, outcome)
    /\ UNCHANGED <<pvars, lvars>>

AllData == UNION {[K -> SMValues] : K \in SUBSET SMKeys}

\* The state machines a leader can have serialized into a snapshot: a membership,
\* if any, was applied no later than last_applied_log (here: with it).
SnapshotPayloads ==
    {p \in [last_applied_log : SMOptLogIds,
            last_membership : {None} \cup {Some(EffectiveMembership(l, m)) :
                                              l \in SMLogIds, m \in Memberships},
            data : AllData] :
        p.last_membership # None =>
            Some(Unwrap(p.last_membership).log_id) = p.last_applied_log}

SnapshotBytes == {SerializeSM(p) : p \in SnapshotPayloads} \cup {Garbage}

\* The envelope a snapshot arrives in names the last log id of the state machine
\* the leader serialized; the envelope of unreadable bytes names none.
EnvelopeOf(bytes) ==
    LET p == DeserializeSM(bytes)
    IN SnapshotMeta(IF p = None THEN None ELSE Unwrap(p).last_applied_log, 1)

\* The largest number of puts one from_serializable call makes.
MaxInstallPuts == Cardinality(SMKeys) + 2

\* The number of puts from_serializable makes for a snapshot (0 for bytes that
\* do not deserialize).
InstallPuts(bytes) ==
    IF DeserializeSM(bytes) = None THEN 0
    ELSE Len(FromSerializableWrites(Unwrap(DeserializeSM(bytes))))

\* The snapshots the engine installs here: unreadable bytes, an empty machine,
\* and the machines after one and after two applied entries.
EngineSnapshotBytes ==
    {Garbage,
     SerializeSM([last_applied_log |-> None, last_membership |-> None,
                  data |-> EmptyCf]),
     SerializeSM([last_applied_log |-> Some(LogId(1, 1)), last_membership |-> None,
                  data |-> [k \in {"a"} |-> "x"]]),
     SerializeSM([last_applied_log |-> Some(LogId(MaxTerm, MaxApplied)),
                  last_membership |-> None, data |-> [k \in {"b"} |-> "x"]])}

\* The engine installs one snapshot at a time: either step of the call, between
\* any two steps of the snapshot task. Here every put_cf and put_meta of
\* install_snapshot succeeds.
DoInstallSnapshot ==
    /\ \/ \E bytes \in EngineSnapshotBytes :
             InstallWrite(EngineInstall, EnvelopeOf(bytes), bytes, MaxInstallPuts)
       \/ InstallPutSnapshot(EngineInstall, TRUE)
    /\ UNCHANGED <<pvars, lvars>>

DoInstallOnFreshStore ==
    /\ InstallOnFreshStore(MaxInstallPuts, TRUE)
    /\ UNCHANGED <<pvars, lvars>>

\* Nothing of the state machine depends on the build's assertions.
InitSM == ProgressIdle /\ ~debug_assertions /\ LogInit /\ SMInit

NextSM ==
    DoApplyToStateMachine \/ DoBuildSnapshot \/ DoInstallSnapshot \/ DoInstallOnFreshStore

SpecSM == InitSM /\ [][NextSM]_vars

\* --- install_snapshot with its failures, on any state machine: each call of
\* InstallCalls is made once, and their steps interleave

\* A new store, or a state machine holding what a snapshot payload describes,
\* with the record of the snapshot that brought it there; no call has run.
InitInstall ==
    /\ ProgressIdle
    /\ ~debug_assertions
    /\ LogInit
    /\ \/ sm = EmptySM /\ meta_snapshot = None
       \/ \E p \in SnapshotPayloads :
             /\ sm = PutAllSM(EmptySM, FromSerializableWrites(p))
             /\ meta_snapshot =
                   Some(RocksSnapshot(EnvelopeOf(SerializeSM(p)), SerializeSM(p)))
    /\ meta_snapshot_index = None
    /\ sm_call = NoSMCall
    /\ builds = NoBuilds
    /\ installs = NoInstalls

\* A step of an install in which every put_cf and put_meta succeeds, or the
\* bytes are unreadable.
DoInstallOnce ==
    /\ \E c \in InstallCalls :
          \/ /\ installs[c].pc = "decode"
             /\ \E bytes \in SnapshotBytes :
                   InstallWrite(c, EnvelopeOf(bytes), bytes, MaxInstallPuts)
          \/ InstallPutSnapshot(c, TRUE)
    /\ UNCHANGED <<pvars, lvars>>

\* A step of an install in which a put_cf of from_serializable fails (or the
\* process dies there), or put_meta of the snapshot behind them does.
DoInstallOnceFails ==
    /\ \E c \in InstallCalls :
          \/ /\ installs[c].pc = "decode"
             /\ \E bytes \in SnapshotBytes : \E puts \in 0..(InstallPuts(bytes) - 1) :
                   InstallWrite(c, EnvelopeOf(bytes), bytes, puts)
          \/ InstallPutSnapshot(c, FALSE)
    /\ UNCHANGED <<pvars, lvars>>

NextInstall == DoInstallOnce \/ DoInstallOnceFails

SpecInstall == InitInstall /\ [][NextInstall]_vars

\* --- two build_snapshot calls on one store, interleaved step by step

\* A store whose state machine holds what a snapshot payload describes and whose
\* meta store holds any snapshot counter (or none); both calls are about to run.
InitBuild2 ==
    /\ ProgressIdle
    /\ ~debug_assertions
    /\ LogInit
    /\ \E p \in SnapshotPayloads : sm = PutAllSM(EmptySM, FromSerializableWrites(p))
    /\ meta_snapshot_index \in {None} \cup {Some(i) : i \in 0..MaxSnapshots}
    /\ meta_snapshot = None
    /\ sm_call = NoSMCall
    /\ builds = [NoBuilds EXCEPT !.initial_index = meta_snapshot_index]
    /\ installs = NoInstalls

\* Each call is made once, and no put_meta fails.
DoBuildSerialize ==
    /\ \E c \in BuildCalls : builds.calls[c].pc = "serialize" /\ BuildSerialize(c)
    /\ UNCHANGED <<pvars, lvars>>

DoBuildGetIndex ==
    /\ \E c \in BuildCalls : BuildGetIndex(c)
    /\ UNCHANGED <<pvars, lvars>>

DoBuildPutIndex ==
    /\ \E c \in BuildCalls : BuildPutIndex(c, "ok")
    /\ UNCHANGED <<pvars, lvars>>

DoBuildPutSnapshot ==
    /\ \E c \in BuildCalls : BuildPutSnapshot(c, "ok")
    /\ UNCHANGED <<pvars, lvars>>

NextBuild2 ==
    DoBuildSerialize \/ DoBuildGetIndex \/ DoBuildPutIndex \/ DoBuildPutSnapshot

SpecBuild2 == InitBuild2 /\ [][NextBuild2]_vars

\* ------------------------------------------------------------------ claims

\* C1: the searching window: in every state the engine runs in,
\* searching_end > matching.index, that is searching_end >= next_index(matching),
\* for any conflict value and any setting of the two allow_log_reversion flags.
C1_SearchingWindow == ~halted => searching_end >= next_index(matching)

\* C2: matching never decreases, except in an update_conflicting call that resets
\* it to None with log reversion allowed; that call leaves the per-entry flag false.
C2_ProgressMonotonic ==
    call.op \in {"update_conflicting", "update_matching"} =>
        \/ OptLe(call.pre.matching, matching)
        \/ /\ call.op = "update_conflicting"
           /\ AllowReset(call.pre.allow_log_reversion, engine_allow_log_reversion)
           /\ matching = None
           /\ allow_log_reversion = FALSE

\* A reset has happened: the one-shot flag was set, matching went back to None.
C2_Witness ==
    /\ call.op = "update_conflicting"
    /\ call.pre.matching # None
    /\ call.pre.allow_log_reversion
    /\ ~engine_allow_log_reversion
    /\ matching = None
    /\ ~allow_log_reversion

\* The call of C3 and C4: update_conflicting with conflict < matching.index + 1.
RevertingCall ==
    /\ call.op = "update_conflicting"
    /\ call.conflict < next_index(call.pre.matching)

\* C3: update_conflicting with conflict < matching.index + 1 while neither flag
\* allows log reversion halts the engine: it never goes on running with the
\* progress entry updated by that call.
C3_ReversionIsFatal ==
    (/\ RevertingCall
     /\ ~call.pre.allow_log_reversion
     /\ ~engine_allow_log_reversion) => halted

\* C4: update_conflicting with conflict < matching.index + 1 while log reversion is
\* allowed (per-entry flag or engine-wide config) completes without a panic, with
\* matching = None, the per-entry flag false and searching_end = conflict.
C4_ReversionAllowed ==
    (/\ RevertingCall
     /\ AllowReset(call.pre.allow_log_reversion, engine_allow_log_reversion)) =>
        /\ ~halted
        /\ matching = None
        /\ allow_log_reversion = FALSE
        /\ searching_end = call.conflict

\* A reversion allowed by the engine-wide config alone, below a searching_end
\* that was above the conflict.
C4_Witness ==
    /\ RevertingCall
    /\ ~call.pre.allow_log_reversion
    /\ engine_allow_log_reversion
    /\ call.conflict + 1 < call.pre.searching_end
    /\ matching = None
    /\ searching_end = call.conflict

\* C5: across successful apply and install_snapshot calls the stored
\* last_applied_log never decreases ((term, index) order, None lowest).
\* For an install the value before the call is that of the column families the
\* call found.
C5_ApplyMonotonic ==
    [][/\ (sm_call'.op = "apply" /\ sm_call'.outcome = "ok") =>
            OptLe(get_last_applied_log(sm), get_last_applied_log(sm'))
       /\ (sm_call'.op = "install" /\ sm_call'.outcome = "ok") =>
            OptLe(get_last_applied_log(sm_call'.pre), get_last_applied_log(sm'))]_vars

\* C6: in the store recovered after a crash inside purge_logs_upto, no retained
\* log entry lies below the recorded last_purged_log_id.
C6_PurgeCrashOrdering ==
    (log_call.op = "purge" /\ log_call.outcome = "crash") =>
        \A k \in DOMAIN cf_logs :
            Unwrap(GetLastPurged(meta_purged)).index <= bin_to_id(k)

\* C7: after a successful install_snapshot the machine's data, last_applied_log
\* and last_membership are exactly those of the deserialized payload.
C7_InstallReplaces ==
    (sm_call.op = "install" /\ sm_call.outcome = "ok") =>
        ToSerializable(sm) = Unwrap(DeserializeSM(sm_call.arg.data))

\* C8: build_snapshot on a state machine S (the one the call serialized), then
\* install_snapshot of the result on an empty machine, yields a machine equal to
\* S in data, last_applied_log and last_membership.
C8_SnapshotRoundTrip ==
    (sm_call.op = "install_fresh" /\ sm_call.outcome = "ok") =>
        /\ sm_call.ret.data = sm_call.arg.data
        /\ get_last_applied_log(sm_call.ret) = sm_call.arg.last_applied_log
        /\ get_last_membership(sm_call.ret) = sm_call.arg.last_membership

\* A round trip of a machine that holds data, a last applied log id and a
\* membership.
C8_Witness ==
    /\ sm_call.op = "install_fresh"
    /\ sm_call.outcome = "ok"
    /\ DOMAIN sm_call.arg.data = SMKeys
    /\ sm_call.arg.last_applied_log # None
    /\ sm_call.arg.last_membership # None
    /\ sm_call.arg = ToSerializable(sm)
    /\ sm_call.ret = sm

\* The ranges that cover exactly the indices of a batch: a..=b and a..b+1.
CoveringRanges(entries) ==
    LET a == entries[1].log_id.index
        b == entries[Len(entries)].log_id.index
    IN {[start |-> Included(a), end |-> Included(b)]}
       \cup (IF b < U64Max THEN {[start |-> Included(a), end |-> Excluded(b + 1)]}
             ELSE {})

\* try_get reads the range of the batch the last call appended.
ReadsAppended ==
    /\ log_call.op = "append"
    /\ log_call.outcome = "ok"
    /\ log_read.op = "try_get"
    /\ log_read.outcome = "ok"
    /\ log_read.arg \in CoveringRanges(log_call.arg)

\* C9: after append(E) with the indices last_index + 1 .. last_index + N, try_get
\* over the range E covers returns exactly the entries of E, in index order.
C9_LogRoundTrip == ReadsAppended => log_read.ret = log_call.arg

\* A batch of two entries appended behind stored ones and read back.
C9_Witness ==
    /\ ReadsAppended
    /\ Len(log_call.arg) = 2
    /\ Cardinality(DOMAIN cf_logs) > 2
    /\ log_read.ret = log_call.arg

\* The first index of a range: 0 when the start is unbounded.
RangeStart(r) ==
    CASE r.start[1] = "Included" -> r.start[2]
      [] r.start[1] = "Excluded" -> r.start[2] + 1
      [] OTHER -> 0

\* The stored entries at the indices i, i + 1, ... up to the first index that is
\* missing from the store or outside the range.
RECURSIVE UpToGap(_, _, _)
UpToGap(cf, r, i) ==
    IF i > U64Max \/ ~RangeContains(r, i) \/ id_to_bin(i) \notin DOMAIN cf
    THEN <<>>
    ELSE <<EntryFromJson(cf[id_to_bin(i)])>> \o UpToGap(cf, r, i + 1)

\* Every stored entry at an index i, i + 1, ... that lies in the range.
RECURSIVE StoredInRange(_, _, _)
StoredInRange(cf, r, i) ==
    IF i > U64Max THEN <<>>
    ELSE (IF RangeContains(r, i) /\ id_to_bin(i) \in DOMAIN cf
          THEN <<EntryFromJson(cf[id_to_bin(i)])>> ELSE <<>>)
         \o StoredInRange(cf, r, i + 1)

ReadOk == log_read.op = "try_get" /\ log_read.outcome = "ok"

\* C10, as stated: try_get returns the stored entries from the range start on and
\* stops at the first gap or at the range end; no entry after a missing index
\* inside the range is returned.
C10_StopsAtGap ==
    ReadOk => log_read.ret = UpToGap(cf_logs, log_read.arg, RangeStart(log_read.arg))

\* C10, amended: try_get returns, in increasing index order, every stored entry
\* whose index lies in the range; a missing index inside the range does not stop it.
C10_AllStoredInRange ==
    ReadOk => log_read.ret = StoredInRange(cf_logs, log_read.arg, 0)

\* A read over a range whose first indices are missing returns the entries
\* stored behind the gap.
C10_Witness ==
    /\ ReadOk
    /\ log_read.arg.start = Unbounded
    /\ id_to_bin(0) \notin DOMAIN cf_logs
    /\ Len(log_read.ret) = 2

\* C11: in every state of the log store, recovery after a crash inside a call
\* included, get_log_state returns last_log_id >= last_purged_log_id when both
\* are present, and last_log_id = last_purged_log_id when the log holds no entry.
C11_LogStateInvariant ==
    LET st == GetLogState(cf_logs, meta_purged)
    IN /\ (st.last_log_id # None /\ st.last_purged_log_id # None) =>
              OptLe(st.last_purged_log_id, st.last_log_id)
       /\ DOMAIN cf_logs = {} => st.last_log_id = st.last_purged_log_id

\* The entries of a column family of logs whose index is below i.
EntriesBelow(cf, i) == [k \in {x \in DOMAIN cf : bin_to_id(x) < i} |-> cf[k]]

\* C12: a delete_conflict_logs_since(log_id) that succeeds removes every stored
\* entry with index >= log_id.index, the largest index included, and leaves the
\* entries below it, last_purged_log_id and the state machine as they were.
C12_DeleteConflictSince ==
    [][(/\ log_call'.op = "delete_conflict"
        /\ log_call'.outcome = "ok"
        /\ log_read' = NoLogRead) =>
           /\ cf_logs' = EntriesBelow(cf_logs, log_call'.arg.index)
           /\ meta_purged' = meta_purged
           /\ sm' = sm]_vars

\* What apply has to do for one entry, as steps on the state machine read as
\* { data, last_applied_log, last_membership }: last_applied_log first, then the
\* payload (none for Blank).
EntrySteps(e) ==
    <<[set |-> "last_applied_log", log_id |-> e.log_id]>>
    \o (IF e.payload[1] = "Normal"
        THEN <<[set |-> "data", key |-> e.payload[2], value |-> e.payload[3]]>>
        ELSE IF e.payload[1] = "Membership"
        THEN <<[set |-> "last_membership", log_id |-> e.log_id,
                membership |-> e.payload[2]]>>
        ELSE <<>>)

RECURSIVE BatchSteps(_)
BatchSteps(entries) ==
    IF entries = <<>> THEN <<>>
    ELSE EntrySteps(Head(entries)) \o BatchSteps(Tail(entries))

StepEffect(st, step) ==
    IF step.set = "last_applied_log"
    THEN [st EXCEPT !.last_applied_log = Some(step.log_id)]
    ELSE IF step.set = "data"
    THEN [st EXCEPT !.data = [k \in (DOMAIN st.data) \cup {step.key} |->
                                 IF k = step.key THEN step.value ELSE st.data[k]]]
    ELSE [st EXCEPT !.last_membership =
                        Some([log_id |-> step.log_id, membership |-> step.membership])]

RECURSIVE StepsEffect(_, _)
StepsEffect(st, steps) ==
    IF steps = <<>> THEN st
    ELSE StepsEffect(StepEffect(st, Head(steps)), Tail(steps))

\* C13: apply(entries) goes through the entries in order, for each one setting
\* last_applied_log first and applying the payload next: whatever the outcome,
\* the machine is the one before the call after a prefix of these steps; on
\* success all steps are done, last_applied_log is the last entry's log id and
\* there is one response per entry, in entry order.
C13_ApplySequential ==
    [][sm_call'.op = "apply" =>
          LET entries == sm_call'.arg
              steps == BatchSteps(entries)
              pre == ToSerializable(sm)
              post == ToSerializable(sm')
          IN /\ \E k \in 0..Len(steps) : post = StepsEffect(pre, SubSeq(steps, 1, k))
             /\ sm_call'.outcome = "ok" =>
                   /\ post = StepsEffect(pre, steps)
                   /\ post.last_applied_log = Some(entries[Len(entries)].log_id)
                   /\ Len(sm_call'.ret) = Len(entries)
                   /\ \A i \in 1..Len(entries) :
                         sm_call'.ret[i] = IF entries[i].payload[1] = "Normal"
                                           THEN Some(entries[i].payload[3])
                                           ELSE None]_vars

\* A batch of a membership entry and a write has been applied.
C13_Witness ==
    /\ sm_call.op = "apply"
    /\ sm_call.outcome = "ok"
    /\ Len(sm_call.arg) = 2
    /\ sm_call.arg[1].payload[1] = "Membership"
    /\ sm_call.arg[2].payload[1] = "Normal"
    /\ get_last_applied_log(sm) = Some(sm_call.arg[2].log_id)
    /\ get_last_membership(sm) =
           Some(EffectiveMembership(sm_call.arg[1].log_id, sm_call.arg[1].payload[2]))
    /\ sm_call.arg[2].payload[2] \in DOMAIN sm.data

\* The snapshot counter the meta store holds: 0 when none was ever stored.
StoredCounter(idx) == IF idx = None THEN 0 ELSE Unwrap(idx)

\* C14: the persisted snapshot counter never goes down, and a build_snapshot
\* that succeeds returns a counter above the persisted one it read, hence above
\* the counter of every earlier call, and has persisted it; the returned meta
\* has last_log_id = the last_applied_log the call serialized (that of the state
\* machine when the call started) and snapshot_id made of (term, index, counter)
\* of that log id, or of the counter alone when nothing is applied.
C14_SnapshotCounter ==
    [][/\ StoredCounter(meta_snapshot_index') >= StoredCounter(meta_snapshot_index)
       /\ (/\ builds.calls[SnapshotTask].pc \in {"serialize", "done"}
           /\ builds'.calls[SnapshotTask].pc = "get_index") =>
             builds'.calls[SnapshotTask].last_applied_log = get_last_applied_log(sm)
       /\ (sm_call'.op = "build" /\ sm_call'.outcome = "ok") =>
             LET meta == sm_call'.ret.meta
                 counter == meta.snapshot_id[3]
                 last == sm_call'.call.state_machine.last_applied_log
             IN /\ counter > StoredCounter(sm_call'.call.stored)
                /\ counter = StoredCounter(meta_snapshot_index')
                /\ meta.last_log_id = last
                /\ last # None => /\ meta.snapshot_id[1] = Unwrap(last).term
                                  /\ meta.snapshot_id[2] = Unwrap(last).index
                /\ last = None => meta.snapshot_id[1] = -1 /\ meta.snapshot_id[2] = -1
      ]_vars

\* A second snapshot of a machine with applied entries, after a build that
\* failed behind its counter.
C14_Witness ==
    /\ sm_call.op = "build"
    /\ sm_call.outcome = "ok"
    /\ sm_call.call.state_machine.last_applied_log # None
    /\ sm_call.call.stored = Some(1)
    /\ sm_call.ret.meta.snapshot_id[3] = 2
    /\ meta_snapshot_index = Some(2)

\* C15: however a build_snapshot call ends (success, an error, a crash), the
\* meta store afterwards holds both the incremented counter and the new snapshot
\* record, or neither of them.
C15_BuildAtomic ==
    [][(sm_call'.op = "build" /\ sm_call'.outcome # "pending") =>
          LET l == sm_call'.call
              new == RocksSnapshot(SnapshotMeta(l.last_applied_log, l.snapshot_idx),
                                   l.data)
          IN \/ /\ meta_snapshot_index' = Some(l.snapshot_idx)
                /\ meta_snapshot' = Some(new)
             \/ /\ meta_snapshot_index' = l.stored
                /\ meta_snapshot' # Some(new)
      ]_vars

\* C16: the state machine left by an install_snapshot that ran into a write
\* error or a crash is the one before the call or the one of the snapshot
\* payload, never a mixture of the two in data, last_applied_log and
\* last_membership. (Stated for a call during which no other call wrote the
\* state machine: the column families before the failing step are those the
\* call found.)
C16_InstallAtomic ==
    [][(/\ sm_call'.op = "install"
        /\ sm_call'.outcome = "io_error"
        /\ sm_call'.pre = sm) =>
          \/ ToSerializable(sm') = ToSerializable(sm)
          \/ ToSerializable(sm') = Unwrap(DeserializeSM(sm_call'.arg.data))]_vars

\* C17: update_matching(m) with m >= matching completes with matching = m and
\* searching_end = max(old searching_end, next_index(m)): searching_end is not
\* lowered, and the per-entry allow_log_reversion flag is as before.
C17_UpdateMatching ==
    (call.op = "update_matching" /\ OptLe(call.pre.matching, call.m)) =>
        /\ ~halted
        /\ matching = call.m
        /\ searching_end >= call.pre.searching_end
        /\ searching_end >= next_index(call.m)
        /\ searching_end \in {call.pre.searching_end, next_index(call.m)}
        /\ allow_log_reversion = call.pre.allow_log_reversion

\* update_matching moved matching past the old searching_end, with the flag set.
C17_Witness ==
    /\ call.op = "update_matching"
    /\ OptLt(call.pre.matching, call.m)
    /\ next_index(call.m) > call.pre.searching_end
    /\ matching = call.m
    /\ searching_end = next_index(call.m)
    /\ allow_log_reversion

\* C18: update_conflicting with conflict >= searching_end leaves matching,
\* searching_end and the per-entry allow_log_reversion flag as they were, and
\* neither resets matching nor halts the engine.
C18_StaleConflictNoOp ==
    (call.op = "update_conflicting" /\ call.conflict >= call.pre.searching_end) =>
        /\ matching = call.pre.matching
        /\ searching_end = call.pre.searching_end
        /\ allow_log_reversion = call.pre.allow_log_reversion
        /\ ~halted

\* A stale conflict above searching_end, reported to an entry that has a
\* matching log id and the one-shot flag set, in a build with assertions.
C18_Witness ==
    /\ call.op = "update_conflicting"
    /\ call.conflict > call.pre.searching_end
    /\ call.pre.matching # None
    /\ call.pre.allow_log_reversion
    /\ debug_assertions
    /\ matching = call.pre.matching
    /\ searching_end = call.pre.searching_end

\* C19: update_conflicting(conflict, FALSE) leaves the inflight state as it was,
\* for every conflict; update_conflicting(conflict, TRUE) resets the inflight
\* window, also when the conflict is stale.
C19_InflightGating ==
    [][(call' # call /\ call'.op = "update_conflicting") =>
          inflight' = IF call'.has_payload THEN "None" ELSE inflight]_vars

\* A stale conflict that came with a payload has cleared an open window.
C19_Witness ==
    /\ call.op = "update_conflicting"
    /\ call.has_payload
    /\ call.conflict >= call.pre.searching_end
    /\ call.pre.inflight = "Logs"
    /\ inflight = "None"

\* C20: with the engine-wide config false and the per-entry flag set at first,
\* the flag is consumed only by an update_conflicting call that detects a
\* reversion (conflict < matching.index + 1) and resets matching to None;
\* matching goes back to None only while the flag is set, hence once; and a
\* reversion detected after that halts the engine.
C20_OneShotReversion ==
    [][/\ (allow_log_reversion /\ ~allow_log_reversion') =>
              /\ call'.op = "update_conflicting"
              /\ call'.conflict < next_index(matching)
              /\ matching' = None
       /\ (matching # None /\ matching' = None) => allow_log_reversion
       /\ (/\ ~allow_log_reversion
           /\ call' # call
           /\ call'.op = "update_conflicting"
           /\ call'.conflict < next_index(matching)) => halted'
      ]_vars

\* C21: update_conflicting with conflict < searching_end sets searching_end to
\* exactly conflict, and no update_conflicting call raises searching_end; when
\* the conflict is not below the matching log id the window stays above it
\* (searching_end > matching.index), and an update_matching below searching_end
\* leaves searching_end where the conflicts put it.
C21_Narrowing ==
    /\ call.op = "update_conflicting" =>
          /\ call.conflict < call.pre.searching_end => searching_end = call.conflict
          /\ searching_end <= call.pre.searching_end
          /\ (/\ call.conflict >= next_index(call.pre.matching)
              /\ call.pre.searching_end >= next_index(call.pre.matching)) =>
                 searching_end >= next_index(matching)
    /\ (call.op = "update_matching" /\ ~halted
        /\ next_index(call.m) <= call.pre.searching_end) =>
           /\ searching_end = call.pre.searching_end
           /\ searching_end >= next_index(matching)

\* The window of a follower with no matching log id was cut from the leader's
\* last index + 1 down to a conflict well below it.
C21_Witness ==
    /\ call.op = "update_conflicting"
    /\ call.pre.matching = None
    /\ call.pre.searching_end = MaxIndex + 1
    /\ call.conflict + 1 < call.pre.searching_end
    /\ call.conflict > 0
    /\ searching_end = call.conflict
    /\ matching = None

\* The entries of a column family of logs whose index is above i.
EntriesAbove(cf, i) == [k \in {x \in DOMAIN cf : bin_to_id(x) > i} |-> cf[k]]

\* C22: a purge_logs_upto(log_id) that completes has removed every stored entry
\* with index <= log_id.index, the largest index included, has recorded
\* last_purged_log_id = log_id and has left the entries above it as they were.
C22_PurgeUpto ==
    [][(/\ log_call'.op = "purge"
        /\ log_call'.outcome = "ok"
        /\ log_read' = NoLogRead) =>
           /\ cf_logs' = EntriesAbove(cf_logs, log_call'.arg.index)
           /\ GetLastPurged(meta_purged') = Some(log_call'.arg)]_vars

\* C23: install_snapshot with bytes that do not deserialize returns an IO error
\* with verb Read and subject Snapshot(meta), and leaves the state machine
\* (data, last_applied_log, last_membership) and the persisted current-snapshot
\* record as they were.
C23_InstallUnreadable ==
    [][(/\ sm_call'.op = "install"
        /\ DeserializeSM(sm_call'.arg.data) = None) =>
           /\ sm_call'.outcome = "read_error"
           /\ sm_call'.ret = SnapshotReadError(sm_call'.arg.meta)
           /\ sm_call'.ret.kind = "IO"
           /\ sm_call'.ret.verb = "Read"
           /\ sm_call'.ret.subject = <<"Snapshot", sm_call'.arg.meta>>
           /\ sm' = sm
           /\ meta_snapshot' = meta_snapshot]_vars

\* Unreadable bytes were installed on a machine that holds data, a last applied
\* log id and a membership, with a snapshot already recorded.
C23_Witness ==
    /\ sm_call.op = "install"
    /\ sm_call.arg.data = Garbage
    /\ sm_call.outcome = "read_error"
    /\ DOMAIN sm.data # {}
    /\ get_last_applied_log(sm) # None
    /\ get_last_membership(sm) # None
    /\ meta_snapshot # None
    /\ Unwrap(meta_snapshot).data # Garbage

\* The effect of an entry's payload is present in a state machine: the data write
\* of a Normal entry, the last_membership update of a Membership entry.
PayloadPresent(db, e) ==
    IF e.payload[1] = "Normal"
    THEN /\ e.payload[2] \in DOMAIN db.data
         /\ db.data[e.payload[2]] = e.payload[3]
    ELSE IF e.payload[1] = "Membership"
    THEN get_last_membership(db) = Some(EffectiveMembership(e.log_id, e.payload[2]))
    ELSE TRUE

\* C24: in every state left by apply(entries), whether it returned success or a
\* storage error part-way through the batch, last_applied_log names an entry
\* whose payload effect is present in the state machine: last_applied_log is
\* never ahead of the applied data.
C24_ApplyConsistentOnError ==
    [][sm_call'.op = "apply" =>
          \A i \in 1..Len(sm_call'.arg) :
              get_last_applied_log(sm') = Some(sm_call'.arg[i].log_id) =>
                  PayloadPresent(sm', sm_call'.arg[i])]_vars

\* C25: when two build_snapshot calls on one store interleave at their reads and
\* writes of the snapshot counter, they still obtain distinct counters and
\* return distinct snapshot_ids, and the persisted snapshot_index ends at the
\* initial one + 2.
C25_UniqueUnderInterleaving ==
    (\A c \in BuildCalls : builds.calls[c].pc = "done") =>
        /\ builds.calls[1].ret.meta.snapshot_id[3] # builds.calls[2].ret.meta.snapshot_id[3]
        /\ builds.calls[1].ret.meta.snapshot_id # builds.calls[2].ret.meta.snapshot_id
        /\ StoredCounter(meta_snapshot_index) = StoredCounter(builds.initial_index) + 2

====
